---- MODULE Spec2Model ----
(***************************************************************************)
(* State-machine model of the SMSRPy fan-game prototypes.                  *)
(*                                                                         *)
(*   starroad4k6.8.25.py  course browser + playable world (Ursina)         *)
(*   road4k_6.8.25.py     course browser only                              *)
(*   supermarioss.py      narrative slideshow with a star counter          *)
(*   road1k.py            narrative fan game with a star counter           *)
(*                                                                         *)
(* One behaviour of the model is one run of one of the scripts: Init picks *)
(* the script (program) and the per-process randomness of the Python       *)
(* runtime (the string-hash secret and the initial state of the `random`   *)
(* module).  Every step is one engine event: a key event dispatched by     *)
(* Ursina, or one frame update.                                            *)
(*                                                                         *)
(* Engine contract the scripts rely on (Ursina): for every key event the   *)
(* engine calls the module-level input(key) of the main script and then    *)
(* the input(key) method of every live entity that defines one; every      *)
(* frame it calls the update() method of every live entity that defines    *)
(* one (the scripts never call SimpleMarioWorld.update themselves).        *)
(***************************************************************************)
EXTENDS Integers, Sequences, FiniteSets, TLC

VARIABLES
    program,                 \* which script is running
    running,                 \* FALSE after application.quit()
    hash_key,                \* per-process secret of Python's str hash
    rng,                     \* state of the global `random` generator
    current_category_index,  \* module global
    browser_title,           \* Text: [text, enabled]
    browser,                 \* CourseBrowser: [courses, scroll_index, selected, items, enabled]
    prompt,                  \* Text: [enabled]
    state,                   \* the dict state = {'mode': ..., 'world': ...}
    camera,                  \* [parent, position, rotation]
    fullscreen,              \* window.fullscreen
    scene,                   \* live entities created by _setup_world, in creation order
    worlds_created,          \* number of SimpleMarioWorld objects constructed so far
    live_worlds,             \* serials of the SimpleMarioWorld entities not yet destroyed
    worlds_destroyed,        \* number of SimpleMarioWorld entities destroy() has removed
    story_index,             \* slideshows: index of the story line on display
    star_count,              \* slideshows: stars collected
    narrative_text,          \* slideshows: Text, [text]
    prompt_text,             \* slideshows: Text, [enabled]
    star_text,               \* slideshows: the star counter Text, [text]
    space_presses,           \* slideshows: number of SPACE key events handled so far
    gen_log,                 \* history: one record per _setup_world call of this run
    events,                  \* number of engine events since the first world was made
    budget,                  \* number of such events this run is followed for
    reset_height,            \* history: the player's height when R was last handled
    last_event               \* the event processed last: [key, world_inputs]

vars == << program, running, hash_key, rng, current_category_index, browser_title,
           browser, prompt, state, camera, fullscreen, scene, worlds_created,
           live_worlds, worlds_destroyed, story_index, star_count, narrative_text,
           prompt_text, star_text, space_presses, gen_log, events, budget,
           reset_height, last_event >>

\* the state of the two slideshow scripts
story_vars == << story_index, star_count, narrative_text, prompt_text, star_text,
                space_presses >>

-----------------------------------------------------------------------------
(* Bounds of the model *)

\* The browser before any course is entered has few states and is explored in
\* full; from the first ENTER on, a run is followed for this many engine events
\* (key events and frames), that ENTER included.
MaxEvents == 4

\* number of distinct per-process secrets (hash secret, initial rng state) tried
NumProcessSeeds == 2

\* A run that starts in a course just entered from the freshly started browser
\* is followed for this many engine events.
MaxWorldEvents == 7

\* a slideshow is followed for this many SPACE presses: past the last line of
\* the longer story (18 lines) by a few presses
MaxPresses == 21

-----------------------------------------------------------------------------
(* Static course data *)

main_courses ==
    << "Bob-omb Islands", "Sky Land Resort", "Piranha Plant Pond", "Chuckya Harbor",
       "Gloomy Garden", "Colorful Coral Caverns", "Koopa Canyon", "Large Leaf Forest",
       "Mad Musical Mess", "Melting Snow Peaks", "Colossal Candy Clutter",
       "Cloudrail Station", "Fatal Flame Falls", "Bob-omb Battle Factory",
       "Starlight Runway" >>

secret_courses ==
    << "Mushroom Mountain Town", "Creepy Cap Cave", "Puzzle of the Vanish Cap",
       "Sandy Slide Secret", "Windy Wing Cap Well", "Hidden Palace Finale" >>

boss_worlds ==
    << "Bowser's Slippery Swamp", "Bowser's Retro Remix Castle",
       "Bowser's Rainbow Rumble" >>

overworlds ==
    << "Star Leap Tower Grounds", "Star Leap Tower Interior", "Flowpipe Sewers",
       "Star Leap Tower First Floor", "Star Road", "Star Leap Tower Grounds (Night)",
       "0-Life Area (DEATH)" >>

\* the dict `categories`; Python dicts keep insertion order
category_names == << "Main Courses", "Secret Courses", "Boss Worlds", "Overworlds" >>

categories(cat_name) ==
    CASE cat_name = "Main Courses"   -> main_courses
      [] cat_name = "Secret Courses" -> secret_courses
      [] cat_name = "Boss Worlds"    -> boss_worlds
      [] cat_name = "Overworlds"     -> overworlds

AllCourses == main_courses \o secret_courses \o boss_worlds \o overworlds

-----------------------------------------------------------------------------
(* Helpers *)

Abs(n) == IF n < 0 THEN -n ELSE n

Max(a, b) == IF a >= b THEN a ELSE b

\* ursina.clamp(value, floor, ceiling) = max(min(value, ceiling), floor)
clamp(value, floor, ceiling) ==
    LET m == IF value <= ceiling THEN value ELSE ceiling
    IN  IF m >= floor THEN m ELSE floor

\* Python slice seq[start:end] for 0-based start, end >= 0
Slice(seq, start, end) ==
    LET hi == IF end <= Len(seq) THEN end ELSE Len(seq)
    IN  IF start >= hi THEN << >> ELSE SubSeq(seq, start + 1, hi)

-----------------------------------------------------------------------------
(* Python runtime: str hash and the `random` module                        *)

\* The text of a course name enters the hash as a number: its ordinal in the
\* catalog stands for the bytes of the string (distinct names, distinct codes).
CourseCode(name) == CHOOSE i \in 1..Len(AllCourses) : AllCourses[i] = name

HashModulus == 65536

\* hash(str): a keyed hash (SipHash in CPython) of the string's bytes.  The key
\* is drawn once per process (PYTHONHASHSEED unset), the result is a signed
\* integer.
PyHash(name, key) ==
    LET c == CourseCode(name)
    IN  ((c * 7919 + key * 10473 + c * key * 31) % HashModulus) - (HashModulus \div 2)

RngModulus == 65536

\* resolution of the floats returned by random.random(): r stands for r / ProbScale
ProbScale == 100

\* random.seed(a) for an int a: the generator state is a function of abs(a)
RandomSeed(a) == Abs(a) % RngModulus

\* one step of the generator
RandomNext(s) == (s * 25173 + 13849) % RngModulus

\* the value in [0, 1) that random.random() returns after stepping to state s
RandomValue(s) == (s * ProbScale) \div RngModulus

-----------------------------------------------------------------------------
(* SimpleMarioWorld._setup_world *)

grid_size == 20
cell_size == 2
p_empty == 70       \* 0.7
p_platform == 20    \* 0.2
p_obstacle == 10    \* 0.1 (assigned, never read)

\* Entity(model=..., position=..., collider=...): no parent is given, so the
\* entity hangs under the scene root (parent 0; a world is named by its serial,
\* which is positive).  made_by records the constructor call that created it.
NewEntity(model, position, collider, serial) ==
    [ model |-> model, position |-> position, collider |-> collider,
      parent |-> 0, made_by |-> serial ]

\* (variant: the first comparison is <= instead of <)
CellKindOfInclusive(r) ==
    IF r <= p_empty THEN "empty"
    ELSE IF r < p_empty + p_platform THEN "platform"
    ELSE "obstacle"

\* the if / elif / else chain on r
CellKindOf(r) ==
    IF r < p_empty THEN "empty"
    ELSE IF r < p_empty + p_platform THEN "platform"
    ELSE "obstacle"

\* (variant: the origin is not skipped, it is sampled like every other cell)
CellStepSamplesOrigin(x, z, serial, acc) ==
    LET s    == RandomNext(acc.rng)
        r    == RandomValue(s)
        pos  == << x * cell_size, 0, z * cell_size >>
        kind == CellKindOf(r)
    IN  IF kind = "empty"
        THEN [acc EXCEPT !.rng = s]
        ELSE IF kind = "platform"
        THEN [ rng |-> s,
               out |-> Append(acc.out, NewEntity("cube", pos, "box", serial)) ]
        ELSE [ rng |-> s,
               out |-> Append(acc.out,
                              NewEntity("sphere", << pos[1], 1, pos[3] >>, "sphere", serial)) ]

\* (variant: x and z are swapped in the position of the cell)
CellStepTransposed(x, z, serial, acc) ==
    IF x = 0 /\ z = 0
    THEN acc
    ELSE LET s    == RandomNext(acc.rng)
             r    == RandomValue(s)
             pos  == << z * cell_size, 0, x * cell_size >>
             kind == CellKindOf(r)
         IN  IF kind = "empty"
             THEN [acc EXCEPT !.rng = s]
             ELSE IF kind = "platform"
             THEN [ rng |-> s,
                    out |-> Append(acc.out, NewEntity("cube", pos, "box", serial)) ]
             ELSE [ rng |-> s,
                    out |-> Append(acc.out,
                                   NewEntity("sphere", << pos[1], 1, pos[3] >>, "sphere", serial)) ]

\* body of the inner loop for cell (x, z); acc = [rng, out]
CellStep(x, z, serial, acc) ==
    IF x = 0 /\ z = 0
    THEN acc
    ELSE LET s    == RandomNext(acc.rng)
             r    == RandomValue(s)
             pos  == << x * cell_size, 0, z * cell_size >>
             kind == CellKindOf(r)
         IN  IF kind = "empty"
             THEN [acc EXCEPT !.rng = s]
             ELSE IF kind = "platform"
             THEN [ rng |-> s,
                    out |-> Append(acc.out, NewEntity("cube", pos, "box", serial)) ]
             ELSE [ rng |-> s,
                    out |-> Append(acc.out,
                                   NewEntity("sphere", << pos[1], 1, pos[3] >>, "sphere", serial)) ]

\* for z in range(grid_size), from z on.  (acc.rng < 0 never holds: the test
\* makes TLC evaluate acc at every iteration, not as one 400-deep expression.)
RECURSIVE InnerLoop(_, _, _, _)
InnerLoop(x, z, serial, acc) ==
    IF z >= grid_size \/ acc.rng < 0 THEN acc
    ELSE InnerLoop(x, z + 1, serial, CellStep(x, z, serial, acc))

\* for x in range(grid_size), from x on
RECURSIVE OuterLoop(_, _, _)
OuterLoop(x, serial, acc) ==
    IF x >= grid_size \/ acc.rng < 0 THEN acc
    ELSE OuterLoop(x + 1, serial, InnerLoop(x, 0, serial, acc))

\* the argument of random.seed
LevelSeed(course_name, key) == PyHash(course_name, key)

\* (variant: random.seed is not called, the generator runs on from old_rng)
SeedNotReset(course_name, key, old_rng) == old_rng

\* the generator state the traversal starts from: random.seed replaces old_rng
SeedForLevel(course_name, key, old_rng) == RandomSeed(LevelSeed(course_name, key))

\* _setup_world: [rng, out], out the entities created, in creation order
setup_world(course_name, key, old_rng, serial) ==
    LET start  == SeedForLevel(course_name, key, old_rng)
        origin == NewEntity("cube", << 0, 0, 0 >>, "box", serial)
        grid   == OuterLoop(0, serial, [ rng |-> start, out |-> << origin >> ])
        skybox == NewEntity("sphere", << 0, 20, 0 >>, "none", serial)
    IN  [ rng |-> grid.rng, out |-> Append(grid.out, skybox) ]

-----------------------------------------------------------------------------
(* The machine: all program state as one record, so that a handler is a     *)
(* function from machine to machine and handlers compose as calls do.       *)

Machine ==
    [ program |-> program, running |-> running, hash_key |-> hash_key, rng |-> rng,
      current_category_index |-> current_category_index,
      browser_title |-> browser_title, browser |-> browser, prompt |-> prompt,
      state |-> state, camera |-> camera, fullscreen |-> fullscreen,
      scene |-> scene, worlds_created |-> worlds_created, gen_log |-> gen_log,
      live_worlds |-> live_worlds, worlds_destroyed |-> worlds_destroyed ]

Becomes(m) ==
    /\ program' = m.program
    /\ running' = m.running
    /\ hash_key' = m.hash_key
    /\ rng' = m.rng
    /\ current_category_index' = m.current_category_index
    /\ browser_title' = m.browser_title
    /\ browser' = m.browser
    /\ prompt' = m.prompt
    /\ state' = m.state
    /\ camera' = m.camera
    /\ fullscreen' = m.fullscreen
    /\ scene' = m.scene
    /\ worlds_created' = m.worlds_created
    /\ gen_log' = m.gen_log
    /\ live_worlds' = m.live_worlds
    /\ worlds_destroyed' = m.worlds_destroyed
    /\ UNCHANGED story_vars

\* Python's None, as the value of state['world']
None == [ none |-> TRUE ]

-----------------------------------------------------------------------------
(* starroad4k6.8.25.py: CourseBrowser *)

\* _refresh: one Text per course of the visible slice, the selected row yellow
refresh(b) ==
    LET start  == b.scroll_index
        slice_ == Slice(b.courses, start, start + b.visible_rows)
    IN  [b EXCEPT !.items =
            [ i \in 1..Len(slice_) |->
                [ text  |-> slice_[i],
                  color |-> IF start + (i - 1) = b.selected THEN "yellow" ELSE "white" ] ]]

\* CourseBrowser.__init__
NewBrowser(courses) ==
    refresh([ courses |-> courses, items |-> << >>, scroll_index |-> 0, selected |-> 0,
              visible_rows |-> 10, enabled |-> TRUE ])

set_courses(b, courses) ==
    refresh([b EXCEPT !.courses = courses, !.scroll_index = 0, !.selected = 0])

\* (variant: the window does not follow the selection)
scroll_window_stays(b, amount) ==
    refresh([b EXCEPT !.selected = clamp(b.selected + amount, 0, Len(b.courses) - 1)])

scroll(b, amount) ==
    LET sel == clamp(b.selected + amount, 0, Len(b.courses) - 1)
        idx == IF sel < b.scroll_index THEN sel
               ELSE IF sel >= b.scroll_index + b.visible_rows THEN sel - b.visible_rows + 1
               ELSE b.scroll_index
    IN  refresh([b EXCEPT !.selected = sel, !.scroll_index = idx])

\* 0-based indexing of self.courses
get_selected_course(b) == b.courses[b.selected + 1]

-----------------------------------------------------------------------------
(* starroad4k6.8.25.py: SimpleMarioWorld *)

\* positions of the player are kept in 1/PosScale units
PosScale == 1000

speed == 7
jump_power == 12
gravity == 32

SpawnPosition == << 0, 1 * PosScale, 0 >>

CameraStartPosition == << 0, 2, -8 >>
CameraStartRotation == << 10, 0, 0 >>

\* SimpleMarioWorld.__init__(course_name, on_quit); on_quit is show_browser
NewWorld(m, course_name) ==
    LET serial == m.worlds_created + 1
        gen    == setup_world(course_name, m.hash_key, m.rng, serial)
        world  == [ course_name |-> course_name, serial |-> serial,
                    info |-> course_name, mario |-> [ position |-> SpawnPosition ],
                    grounded |-> FALSE, y_velocity |-> 0 ]
    IN  [ world   |-> world,
          machine |-> [m EXCEPT
                         !.worlds_created = serial,
                         !.live_worlds = m.live_worlds \cup { serial },
                         !.camera = [ parent |-> serial,
                                      position |-> CameraStartPosition,
                                      rotation |-> CameraStartRotation ],
                         !.rng = gen.rng,
                         !.scene = m.scene \o gen.out,
                         !.gen_log = Append(m.gen_log,
                                            [ course_name |-> course_name,
                                              seed |-> LevelSeed(course_name, m.hash_key),
                                              out |-> gen.out ])] ]

\* destroy(entity): the entity and the entities parented to it leave the scene;
\* destroy() of an entity that is already destroyed does nothing
destroy_world(m, w) ==
    IF w.serial \in m.live_worlds
    THEN [m EXCEPT !.scene = SelectSeq(m.scene, LAMBDA e : e.parent # w.serial),
                   !.live_worlds = m.live_worlds \ { w.serial },
                   !.worlds_destroyed = m.worlds_destroyed + 1]
    ELSE m

\* (variant: the list is rebuilt from the current category, which puts the
\* selection back on the first row)
show_browser_rebuilds_list(m) ==
    LET m1 == [m EXCEPT !.state.mode = "browser",
                        !.browser = [set_courses(m.browser, m.browser.courses)
                                        EXCEPT !.enabled = TRUE],
                        !.browser_title.enabled = TRUE,
                        !.prompt.enabled = TRUE]
    IN  IF m1.state.world # None
        THEN [destroy_world(m1, m1.state.world) EXCEPT !.state.world = None]
        ELSE m1

show_browser(m) ==
    LET m1 == [m EXCEPT !.state.mode = "browser",
                        !.browser.enabled = TRUE,
                        !.browser_title.enabled = TRUE,
                        !.prompt.enabled = TRUE]
    IN  IF m1.state.world # None
        THEN [destroy_world(m1, m1.state.world) EXCEPT !.state.world = None]
        ELSE m1

\* (variant: the prompt stays on screen while a course is played)
enter_course_keeps_prompt(m) ==
    LET course == get_selected_course(m.browser)
        m1     == [m EXCEPT !.browser.enabled = FALSE,
                            !.browser_title.enabled = FALSE,
                            !.state.mode = "world"]
        made   == NewWorld(m1, course)
    IN  [made.machine EXCEPT !.state.world = made.world]

enter_course(m) ==
    LET course == get_selected_course(m.browser)
        m1     == [m EXCEPT !.browser.enabled = FALSE,
                            !.browser_title.enabled = FALSE,
                            !.prompt.enabled = FALSE,
                            !.state.mode = "world"]
        made   == NewWorld(m1, course)
    IN  [made.machine EXCEPT !.state.world = made.world]

\* (variant: the vertical velocity is not cleared)
reset_mario_keeps_velocity(m, w) ==
    [m EXCEPT !.state.world.mario.position = SpawnPosition,
              !.camera.position = CameraStartPosition,
              !.camera.rotation = CameraStartRotation]

\* _reset_mario, on the world w of machine m
reset_mario(m, w) ==
    [m EXCEPT !.state.world.mario.position = SpawnPosition,
              !.state.world.y_velocity = 0,
              !.camera.position = CameraStartPosition,
              !.camera.rotation = CameraStartRotation]

\* SimpleMarioWorld.quit: info and mario are destroyed with the world object;
\* camera.parent = None is parent -1
world_quit(m, w) ==
    LET m1 == [m EXCEPT !.camera = [ parent |-> -1, position |-> << 0, 0, 0 >>,
                                     rotation |-> << 0, 0, 0 >> ]]
        m2 == show_browser(m1)
    IN  destroy_world(m2, w)

\* SimpleMarioWorld.input
world_input(m, w, key) ==
    IF key = "q" THEN world_quit(m, w)
    ELSE IF key = "r" THEN reset_mario(m, w)
    ELSE IF key = "f11" THEN [m EXCEPT !.fullscreen = ~m.fullscreen]
    ELSE IF key = "escape" THEN [m EXCEPT !.running = FALSE]
    ELSE m

\* SimpleMarioWorld.update, for one frame.  held is the set of held keys,
\* mouse_velocity the pair mouse.velocity, dt_den the frame time as 1 / dt_den s.
\* mario is never rotated, so mario.right = (1,0,0) and mario.forward = (0,0,1).
Sign(n) == IF n < 0 THEN -1 ELSE IF n > 0 THEN 1 ELSE 0

\* a component of Vec3.normalized(), in 1/1000: 1/sqrt(2) = 0.707 on a diagonal
Normalized(c, other) == IF c = 0 THEN 0 ELSE IF other = 0 THEN 1000 * c ELSE 707 * c

\* n * speed * dt in 1/PosScale units, rounded toward zero
MoveStep(n, dt_den) == Sign(n) * (((Abs(n) * speed * PosScale) \div 1000) \div dt_den)

\* (variant: SPACE starts a jump in every tick, grounded or not)
world_update_air_jump(m, held, mouse_velocity, dt_den) ==
    LET w      == m.state.world
        vel1   == w.y_velocity - (gravity \div dt_den)
        y1     == w.mario.position[2] + ((vel1 * PosScale) \div dt_den)
        landed == y1 <= 1 * PosScale
    IN  [m EXCEPT
           !.state.world.mario.position[2] = IF landed THEN 1 * PosScale ELSE y1,
           !.state.world.grounded = landed,
           !.state.world.y_velocity =
               IF "space" \in held THEN jump_power ELSE IF landed THEN 0 ELSE vel1]

world_update(m, held, mouse_velocity, dt_den) ==
    LET w      == m.state.world
        move_z == (IF "w" \in held THEN -1 ELSE 0) + (IF "s" \in held THEN 1 ELSE 0)
        move_x == (IF "a" \in held THEN -1 ELSE 0) + (IF "d" \in held THEN 1 ELSE 0)
        step_x == MoveStep(Normalized(move_x, move_z), dt_den)
        step_z == MoveStep(Normalized(move_z, move_x), dt_den)
        vel1   == w.y_velocity - (gravity \div dt_den)
        y1     == w.mario.position[2] + ((vel1 * PosScale) \div dt_den)
        landed == y1 <= 1 * PosScale
        y2     == IF landed THEN 1 * PosScale ELSE y1
        vel2   == IF landed THEN 0 ELSE vel1
        vel3   == IF "space" \in held /\ landed THEN jump_power ELSE vel2
        rot    == m.camera.rotation
        rot_y  == rot[2] + mouse_velocity[1] * 45
        rot_x  == clamp(rot[1] - mouse_velocity[2] * 30, -60, 60)
    IN  [m EXCEPT
           !.state.world.mario.position =
               << w.mario.position[1] + step_x, y2, w.mario.position[3] + step_z >>,
           !.state.world.grounded = landed,
           !.state.world.y_velocity = vel3,
           !.camera.rotation =
               IF "right mouse" \in held THEN << rot_x, rot_y, rot[3] >> ELSE rot]

-----------------------------------------------------------------------------
(* starroad4k6.8.25.py: module-level input(key) *)

\* (variant: the modulus is one short, so the last category is never shown)
cycle_category_short(index) == (index + 1) % (Len(category_names) - 1)

\* current_category_index = (current_category_index + 1) % len(category_names)
cycle_category(index) == (index + 1) % Len(category_names)

module_input(m, key) ==
    IF m.state.mode = "browser"
    THEN IF key = "up arrow" THEN [m EXCEPT !.browser = scroll(m.browser, -1)]
         ELSE IF key = "down arrow" THEN [m EXCEPT !.browser = scroll(m.browser, 1)]
         ELSE IF key = "tab"
         THEN LET idx      == cycle_category(m.current_category_index)
                  cat_name == category_names[idx + 1]
              IN  [m EXCEPT !.current_category_index = idx,
                            !.browser_title.text = cat_name,
                            !.browser = set_courses(m.browser, categories(cat_name))]
         ELSE IF key = "enter" THEN enter_course(m)
         ELSE IF key = "escape" THEN [m EXCEPT !.running = FALSE]
         ELSE m
    ELSE IF m.state.mode = "world"
    THEN IF m.state.world # None THEN world_input(m, m.state.world, key) ELSE m
    ELSE m

\* The engine's second delivery: after the module-level input(key) it calls
\* input(key) on every live entity that defines it.  SimpleMarioWorld is the
\* only such entity; application.quit() ends the event.
entity_input(m, key) ==
    IF m.running /\ m.state.world # None
    THEN world_input(m, m.state.world, key)
    ELSE m

\* how many times SimpleMarioWorld.input runs for one key event that starts in
\* machine m, m1 being the machine after the module-level input(key)
WorldInputCalls(m, m1) ==
    (IF m.state.mode = "world" /\ m.state.world # None THEN 1 ELSE 0)
    + (IF m1.running /\ m1.state.world # None THEN 1 ELSE 0)

-----------------------------------------------------------------------------
(* road4k_6.8.25.py: the browser without a selection and without worlds *)

r4_refresh(b) ==
    LET start  == b.scroll_index
        slice_ == Slice(b.courses, start, start + b.visible_rows)
    IN  [b EXCEPT !.items =
            [ i \in 1..Len(slice_) |-> [ text |-> slice_[i], color |-> "white" ] ]]

r4_NewBrowser(courses) ==
    r4_refresh([ courses |-> courses, items |-> << >>, scroll_index |-> 0,
                 visible_rows |-> 10, enabled |-> TRUE ])

r4_set_courses(b, courses) ==
    r4_refresh([b EXCEPT !.courses = courses, !.scroll_index = 0])

r4_scroll(b, amount) ==
    r4_refresh([b EXCEPT !.scroll_index =
                   clamp(b.scroll_index + amount, 0,
                         Max(0, Len(b.courses) - b.visible_rows))])

r4_input(m, key) ==
    IF key = "up arrow" THEN [m EXCEPT !.browser = r4_scroll(m.browser, -1)]
    ELSE IF key = "down arrow" THEN [m EXCEPT !.browser = r4_scroll(m.browser, 1)]
    ELSE IF key = "tab"
    THEN LET idx      == cycle_category(m.current_category_index)
             cat_name == category_names[idx + 1]
         IN  [m EXCEPT !.current_category_index = idx,
                       !.browser_title.text = cat_name,
                       !.browser = r4_set_courses(m.browser, categories(cat_name))]
    ELSE IF key = "escape" THEN [m EXCEPT !.running = FALSE]
    ELSE m

-----------------------------------------------------------------------------
(* supermarioss.py: the narrative slideshow *)

\* the state of a slideshow as one record, so that a handler is a function
Story ==
    [ story_index |-> story_index, star_count |-> star_count,
      narrative_text |-> narrative_text, prompt_text |-> prompt_text,
      star_text |-> star_text ]

StoryBecomes(st) ==
    /\ story_index' = st.story_index
    /\ star_count' = st.star_count
    /\ narrative_text' = st.narrative_text
    /\ prompt_text' = st.prompt_text
    /\ star_text' = st.star_text

\* (the dash of line 11 is written "-")
story_lines ==
    << "Mario finds himself in a strange new world, seeking Power Stars.",
       "A towering fortress stands before him under the twilight sky.",
       "Enemies lurk around, but Mario presses on with determination.",
       "He navigates treacherous paths and narrow ledges with skill.",
       "At the fortress summit, a fierce Goomba King challenges Mario!",
       "Defeated, the Goomba King drops a shining Power Star at Mario's feet.",
       "With a cheer, Mario claims the Power Star, feeling stronger.",
       "A distant gate opens, revealing a new area for Mario to explore.",
       "Mario gathers 8 Red Coins hidden around the fortress grounds.",
       "The Red Coins' energy forms a Power Star above an ancient pedestal.",
       "Mario leaps high and secures the newly formed Power Star in triumph.",
       "A rumble shakes the world - Bowser's laugh echoes in the distance.",
       "Mario races through the opened gate toward Bowser's looming castle.",
       "In the grand hall, Bowser confronts Mario for a final showdown.",
       "With courage and agility, Mario overcomes Bowser's tricks and traps.",
       "Bowser yields, and the final Grand Star appears for Mario to grab." >>

star_trigger_indices == { 5, 8, 9, 15 }

\* f"*: {star_count}", the star symbol written "*"
StarLabel(n) == "*: " \o ToString(n)

\* the UI right after the module has been loaded
ss_NewStory ==
    [ story_index |-> 0, star_count |-> 0,
      narrative_text |-> [ text |-> story_lines[1] ],
      prompt_text |-> [ enabled |-> TRUE ],
      star_text |-> [ text |-> StarLabel(0) ] ]

\* (variant: the star is counted on every press made on a trigger line, also
\* when the story did not advance)
progress_story_recounts(st) ==
    LET i  == IF st.story_index < Len(story_lines) - 1
              THEN st.story_index + 1 ELSE st.story_index
        n  == IF i \in star_trigger_indices THEN st.star_count + 1 ELSE st.star_count
    IN  [st EXCEPT !.story_index = i,
                   !.narrative_text.text = story_lines[i + 1],
                   !.star_count = n,
                   !.star_text.text = StarLabel(n),
                   !.prompt_text.enabled =
                       IF i = Len(story_lines) - 1 THEN FALSE ELSE st.prompt_text.enabled]

\* progress_story()
progress_story(st) ==
    IF st.story_index < Len(story_lines) - 1
    THEN LET i  == st.story_index + 1
             s1 == [st EXCEPT !.story_index = i,
                              !.narrative_text.text = story_lines[i + 1]]
             s2 == IF i \in star_trigger_indices
                   THEN [s1 EXCEPT !.star_count = s1.star_count + 1,
                                   !.star_text.text = StarLabel(s1.star_count + 1)]
                   ELSE s1
         IN  IF i = Len(story_lines) - 1
             THEN [s2 EXCEPT !.prompt_text.enabled = FALSE]
             ELSE s2
    ELSE st

-----------------------------------------------------------------------------
(* road1k.py: StarRoadGame *)

story_text ==
    << "Yoshi: Mario! Bowser has found the secret to get to the Star Road, the kingdom of the Star Spirits!",
       "Yoshi: Using the power of the Power Stars, he's transporting his troops all over the Mushroom Kingdom!",
       "Yoshi: You must collect enough Power Stars to break the seal and reach the Star Road!",
       "~ You begin your adventure, leaping through paintings and pipes into new worlds... ~",
       "~ After a perilous journey through a swamp, you face... the Pernicious Piranha Plant! ~",
       "~ You defeat the foul flower! You've collected 40 Stars! ~",
       "~ Your adventure continues into a nostalgic and challenging castle in the sky... ~",
       "~ Atop the castle, you challenge the Blueberry Bully and send him flying! ~",
       "~ Victory! You've collected 80 Stars! The seal to the Star Road is weakening... ~",
       "~ With 120 Stars collected, a celestial path opens before you... ~",
       "~ You've reached the Star Road! Bowser's Sky Base floats menacingly ahead. ~",
       "~ The final battle! You face Bowser himself in a chaotic showdown among the stars... ~",
       "~ You've defeated Bowser! The Star Road is safe once more! ~",
       "Princess Peach: Oh, Mario! Thank you! You've saved the Mushroom Kingdom and the Star Spirits!",
       "Princess Peach: For your bravery, please accept this special Power Star! ~",
       "~ YOU GOT A STAR! Total Stars: 121 ~",
       "Narrator: A new challenge has appeared! A Star Replica is now hidden in each secret course...",
       "Narrator: Can you find all 130 Stars? The adventure continues! (Thanks for playing!)" >>

EndText == "The End. ROM Hack by Skelux, Fan Game by You!"

\* f"Stars: {self.star_count}"
StarDisplay(n) == "Stars: " \o ToString(n)

\* StarRoadGame.__init__
r1_NewStory ==
    [ story_index |-> 0, star_count |-> 0,
      narrative_text |-> [ text |-> story_text[1] ],
      prompt_text |-> [ enabled |-> TRUE ],
      star_text |-> [ text |-> StarDisplay(0) ] ]

update_star_count(st, new_count) ==
    [st EXCEPT !.star_count = new_count, !.star_text.text = StarDisplay(new_count)]

\* (variant: the 120 stars are handed out one line early, in place of the 80)
advance_story_early_120(st) ==
    LET i  == st.story_index + 1
        s1 == [st EXCEPT !.story_index = i]
    IN  IF i < Len(story_text)
        THEN LET s2 == [s1 EXCEPT !.narrative_text.text = story_text[i + 1]]
             IN  IF i = 5 THEN update_star_count(s2, 40)
                 ELSE IF i = 8 THEN update_star_count(s2, 120)
                 ELSE IF i = 15 THEN update_star_count(s2, 121)
                 ELSE s2
        ELSE [s1 EXCEPT !.narrative_text.text = EndText, !.prompt_text.enabled = FALSE]

\* StarRoadGame.advance_story
advance_story(st) ==
    LET i  == st.story_index + 1
        s1 == [st EXCEPT !.story_index = i]
    IN  IF i < Len(story_text)
        THEN LET s2 == [s1 EXCEPT !.narrative_text.text = story_text[i + 1]]
             IN  IF i = 5 THEN update_star_count(s2, 40)
                 ELSE IF i = 8 THEN update_star_count(s2, 80)
                 ELSE IF i = 9 THEN update_star_count(s2, 120)
                 ELSE IF i = 15 THEN update_star_count(s2, 121)
                 ELSE s2
        ELSE [s1 EXCEPT !.narrative_text.text = EndText, !.prompt_text.enabled = FALSE]

-----------------------------------------------------------------------------
(* Events *)

Programs == { "starroad4k", "road4k", "supermarioss", "road1k" }

\* the keys pressed in a slideshow: the two it handles and one it ignores
StoryKeys == { "space", "escape", "enter" }

\* the keys the user presses: every key one of the handlers names (each of them
\* is a key the handler of the other mode ignores)
Keys == { "up arrow", "down arrow", "tab", "enter", "escape", "q", "r", "f11" }

\* what a frame may sample: held keys, mouse velocity, frame time 1 / dt_den
FrameInputs ==
    { [ held |-> {},                     mouse_velocity |-> << 0, 0 >>,  dt_den |-> 4 ],
      [ held |-> { "space", "w", "d" },  mouse_velocity |-> << 0, 0 >>,  dt_den |-> 8 ],
      [ held |-> { "s", "right mouse" }, mouse_velocity |-> << 1, -1 >>, dt_den |-> 4 ] }

\* the machine right after the script prog has been loaded in a Python process
\* whose secrets are those numbered p
Fresh(prog, p) ==
    [ program |-> prog, running |-> TRUE, hash_key |-> p, rng |-> RandomSeed(p * 7001),
      current_category_index |-> 0,
      browser_title |-> [ text |-> category_names[1], enabled |-> TRUE ],
      browser |-> IF prog = "starroad4k"
                  THEN NewBrowser(categories(category_names[1]))
                  ELSE r4_NewBrowser(categories(category_names[1])),
      prompt |-> [ enabled |-> TRUE ],
      state |-> [ mode |-> "browser", world |-> None ],
      camera |-> [ parent |-> 0, position |-> << 0, 0, -20 >>, rotation |-> << 0, 0, 0 >> ],
      fullscreen |-> FALSE, scene |-> << >>, worlds_created |-> 0, gen_log |-> << >>,
      live_worlds |-> {}, worlds_destroyed |-> 0 ]

\* the variables of the machine have the values of m
Is(m) ==
    /\ program = m.program
    /\ running = m.running
    /\ hash_key = m.hash_key
    /\ rng = m.rng
    /\ current_category_index = m.current_category_index
    /\ browser_title = m.browser_title
    /\ browser = m.browser
    /\ prompt = m.prompt
    /\ state = m.state
    /\ camera = m.camera
    /\ fullscreen = m.fullscreen
    /\ scene = m.scene
    /\ worlds_created = m.worlds_created
    /\ gen_log = m.gen_log
    /\ live_worlds = m.live_worlds
    /\ worlds_destroyed = m.worlds_destroyed

\* the slideshow widgets right after the script prog has been loaded
StoryIs(st) ==
    /\ story_index = st.story_index
    /\ star_count = st.star_count
    /\ narrative_text = st.narrative_text
    /\ prompt_text = st.prompt_text
    /\ star_text = st.star_text
    /\ space_presses = 0

Init ==
    /\ \E prog \in Programs : \E p \in 1..NumProcessSeeds :
          /\ Is(Fresh(prog, p))
          /\ StoryIs(IF prog = "road1k" THEN r1_NewStory ELSE ss_NewStory)
    /\ events = 0
    /\ budget = MaxEvents
    /\ reset_height = 0
    /\ last_event = [ key |-> "none", world_inputs |-> 0 ]

\* starroad4k6.8.25.py with the first course of the start screen just entered:
\* the script has been loaded and ENTER has been handled
InitWorld ==
    /\ \E p \in 1..NumProcessSeeds :
       \E m1 \in { module_input(Fresh("starroad4k", p), "enter") } :
          /\ Is(entity_input(m1, "enter"))
          /\ last_event = [ key |-> "enter",
                            world_inputs |-> WorldInputCalls(Fresh("starroad4k", p), m1) ]
    /\ StoryIs(ss_NewStory)
    /\ events = 0
    /\ budget = MaxWorldEvents
    /\ reset_height = 0

\* one key event of starroad4k6.8.25.py, as the engine dispatches it
StarRoadKey(key) ==
    /\ program = "starroad4k"
    /\ running
    /\ events < budget
    /\ \E m1 \in { module_input(Machine, key) } :
       \E m2 \in { entity_input(m1, key) } :
          /\ Becomes(m2)
          /\ last_event' = [ key |-> key, world_inputs |-> WorldInputCalls(Machine, m1) ]
          /\ events' = IF m2.worlds_created = 0 THEN 0 ELSE events + 1
          /\ budget' = budget
          /\ reset_height' = IF key = "r" /\ state.world # None
                             THEN state.world.mario.position[2]
                             ELSE reset_height

\* one frame of starroad4k6.8.25.py while a world is alive
StarRoadFrame(inp) ==
    /\ program = "starroad4k"
    /\ running
    /\ state.world # None
    /\ events < budget
    /\ \E m1 \in { world_update(Machine, inp.held, inp.mouse_velocity, inp.dt_den) } :
          Becomes(m1)
    /\ events' = events + 1
    /\ UNCHANGED << budget, reset_height >>
    /\ last_event' = [ key |-> "update", world_inputs |-> 0 ]

\* one key event of road4k_6.8.25.py
Road4kKey(key) ==
    /\ program = "road4k"
    /\ running
    /\ events < budget
    /\ \E m1 \in { r4_input(Machine, key) } : Becomes(m1)
    /\ events' = 0
    /\ UNCHANGED << budget, reset_height >>
    /\ last_event' = [ key |-> key, world_inputs |-> 0 ]

\* the variables of the browser scripts, which a slideshow never touches
browser_vars == << program, hash_key, rng, current_category_index, browser_title,
                   browser, prompt, state, camera, fullscreen, scene, worlds_created,
                   live_worlds, worlds_destroyed, gen_log, events, budget,
                   reset_height >>

\* one key event of supermarioss.py: the module-level input(key)
SuperMarioSSKey(key) ==
    /\ program = "supermarioss"
    /\ running
    /\ key = "space" => space_presses < MaxPresses
    /\ StoryBecomes(IF key = "space" THEN progress_story(Story) ELSE Story)
    /\ space_presses' = IF key = "space" THEN space_presses + 1 ELSE space_presses
    /\ running' = (key # "escape")
    /\ last_event' = [ key |-> key, world_inputs |-> 0 ]
    /\ UNCHANGED browser_vars

\* one key event of road1k.py: StarRoadGame.input(key)
Road1kKey(key) ==
    /\ program = "road1k"
    /\ running
    /\ key = "space" => space_presses < MaxPresses
    /\ StoryBecomes(IF key = "space" THEN advance_story(Story) ELSE Story)
    /\ space_presses' = IF key = "space" THEN space_presses + 1 ELSE space_presses
    /\ running' = (key # "escape")
    /\ last_event' = [ key |-> key, world_inputs |-> 0 ]
    /\ UNCHANGED browser_vars

Next ==
    \/ \E key \in Keys : StarRoadKey(key)
    \/ \E inp \in FrameInputs : StarRoadFrame(inp)
    \/ \E key \in Keys : Road4kKey(key)
    \/ \E key \in StoryKeys : SuperMarioSSKey(key)
    \/ \E key \in StoryKeys : Road1kKey(key)

Spec == Init /\ [][Next]_vars

\* the events of starroad4k6.8.25.py alone
NextWorld ==
    \/ \E key \in Keys : StarRoadKey(key)
    \/ \E inp \in FrameInputs : StarRoadFrame(inp)

\* a run of starroad4k6.8.25.py followed from the first course entered
SpecWorld == InitWorld /\ [][NextWorld]_vars

-----------------------------------------------------------------------------
(* Vocabulary of the properties *)

\* a generation has just run: the last event was the ENTER that made a world
JustGenerated == state.mode = "world" /\ last_event.key = "enter" /\ gen_log # << >>

\* the record of the latest _setup_world call
LastGen == gen_log[Len(gen_log)]

\* an entity without the identity of the world that made it
Shape(e) == [ model |-> e.model, position |-> e.position, collider |-> e.collider ]

Shapes(out) == [ i \in 1..Len(out) |-> Shape(out[i]) ]

\* platforms and obstacles are the entities with a collider; the sky sphere has none
IsGeometry(e) == e.collider # "none"

\* n successive generator states after s (n <= grid_size)
RECURSIVE StatesAfter(_, _)
StatesAfter(s, n) ==
    IF n = 0 THEN << >>
    ELSE LET t == RandomNext(s) IN << t >> \o StatesAfter(t, n - 1)

\* rows * grid_size successive generator states after s
RECURSIVE StateRows(_, _)
StateRows(s, rows) ==
    IF rows = 0 THEN << >>
    ELSE LET row == StatesAfter(s, grid_size)
         IN  row \o StateRows(row[grid_size], rows - 1)

\* the first grid_size * grid_size values random.random() returns after random.seed(seed)
DrawsAfterSeed(seed) ==
    LET states == StateRows(RandomSeed(seed), grid_size)
    IN  [ k \in 1..Len(states) |-> RandomValue(states[k]) ]

\* the k-th non-origin cell in x-outer, z-inner order is cell (k \div grid_size, k % grid_size)
CellNumber(x, z) == x * grid_size + z

NonOriginCells == { c \in (0..(grid_size - 1)) \X (0..(grid_size - 1)) : c # << 0, 0 >> }

\* the kind of cell (x, z) as read off a set of entity shapes
KindIn(shapes, x, z) ==
    LET platform == [ model |-> "cube", position |-> << x * cell_size, 0, z * cell_size >>,
                      collider |-> "box" ]
        obstacle == [ model |-> "sphere", position |-> << x * cell_size, 1, z * cell_size >>,
                      collider |-> "sphere" ]
    IN  IF platform \in shapes /\ obstacle \notin shapes THEN "Platform"
        ELSE IF obstacle \in shapes /\ platform \notin shapes THEN "Obstacle"
        ELSE IF platform \notin shapes /\ obstacle \notin shapes THEN "Empty"
        ELSE "Both"

\* the entities of out that stand on grid cell (x, z)
GeometryAt(out, x, z) ==
    { i \in 1..Len(out) : /\ IsGeometry(out[i])
                          /\ out[i].position[1] = x * cell_size
                          /\ out[i].position[3] = z * cell_size }

-----------------------------------------------------------------------------
(* Properties of the level generator *)

\* C1 (determinism within a run): any two generations for the same course name,
\* for instance entering a course, leaving with Q and entering it again, create
\* the same entities in the same order: same model, position and collider.
C1_Determinism ==
    \A j \in 1..Len(gen_log) :
        \A i \in 1..(j - 1) :
            gen_log[i].course_name = gen_log[j].course_name
                => Shapes(gen_log[i].out) = Shapes(gen_log[j].out)

\* a course has been generated, left and generated again
C1_Witness ==
    /\ JustGenerated
    /\ Len(gen_log) = 2
    /\ gen_log[1].course_name = gen_log[2].course_name
    /\ Len(gen_log[2].out) > 2

\* C2 (seed is a function of the name alone, in every run): the integer handed
\* to random.seed for a course is the one every run of the program would hand
\* over, whatever hash secret the run's Python process drew.
C2_SeedSameInEveryRun ==
    \A i \in 1..Len(gen_log) :
        \A key \in 1..NumProcessSeeds :
            gen_log[i].seed = PyHash(gen_log[i].course_name, key)

\* C3 (origin invariant): every generated grid has exactly one piece of geometry
\* on cell (0,0), and it is the platform cube at world position (0,0,0).
C3_OriginIsPlatform ==
    \A i \in 1..Len(gen_log) :
        LET out == gen_log[i].out
            at0 == GeometryAt(out, 0, 0)
        IN  /\ Cardinality(at0) = 1
            /\ \A n \in at0 :
                  Shape(out[n]) = [ model |-> "cube", position |-> << 0, 0, 0 >>,
                                    collider |-> "box" ]

\* a grid was generated whose first draw, had the origin been sampled, would
\* have made the origin an obstacle
C3_Witness ==
    /\ JustGenerated
    /\ DrawsAfterSeed(LastGen.seed)[1] >= p_empty + p_platform
    /\ \E n \in 1..Len(scene) :
          /\ scene[n].made_by = state.world.serial
          /\ scene[n].position = << 0, 0, 0 >>
          /\ scene[n].model = "cube"

\* C4 (thresholds): in a generated grid every non-origin cell has exactly one
\* kind, decided by the draw r it consumed: Empty if r < pEmpty, Platform if
\* pEmpty <= r < pEmpty + pPlatform, Obstacle if r >= pEmpty + pPlatform.
C4_ThresholdClassification ==
    JustGenerated =>
        \A draws \in { DrawsAfterSeed(LastGen.seed) } :
        \A shapes \in { { Shape(LastGen.out[n]) : n \in 1..Len(LastGen.out) } } :
            /\ Cardinality(shapes) = Len(LastGen.out)
            /\ \A c \in NonOriginCells :
                  LET r    == draws[CellNumber(c[1], c[2])]
                      kind == KindIn(shapes, c[1], c[2])
                  IN  /\ kind \in { "Empty", "Platform", "Obstacle" }
                      /\ (r < p_empty) => (kind = "Empty")
                      /\ (p_empty <= r /\ r < p_empty + p_platform) => (kind = "Platform")
                      /\ (r >= p_empty + p_platform) => (kind = "Obstacle")

\* a grid with a cell whose draw is exactly pEmpty (a Platform) and a cell whose
\* draw is exactly pEmpty + pPlatform (an Obstacle)
C4_Witness ==
    /\ JustGenerated
    /\ \A draws \in { DrawsAfterSeed(LastGen.seed) } :
       \A shapes \in { { Shape(LastGen.out[n]) : n \in 1..Len(LastGen.out) } } :
          /\ \E c \in NonOriginCells :
                /\ draws[CellNumber(c[1], c[2])] = p_empty
                /\ KindIn(shapes, c[1], c[2]) = "Platform"
          /\ \E c \in NonOriginCells :
                /\ draws[CellNumber(c[1], c[2])] = p_empty + p_platform
                /\ KindIn(shapes, c[1], c[2]) = "Obstacle"

\* the number of the grid cell an entity stands on
CellNumberOf(e) ==
    CellNumber(e.position[1] \div cell_size, e.position[3] \div cell_size)

\* C5 (traversal): one generation steps the one generator exactly
\* grid_size * grid_size - 1 times after seeding; the origin platform is created
\* first without a draw, the k-th draw belongs to the k-th non-origin cell in
\* x-outer, z-inner order, and the entities are created in that cell order.
C5_TraversalOrder ==
    JustGenerated =>
        \A states \in { StateRows(RandomSeed(LastGen.seed), grid_size) } :
        \A out \in { LastGen.out } :
            LET last == Len(out)
            IN  /\ rng = states[grid_size * grid_size - 1]
                /\ Shape(out[1]) = [ model |-> "cube", position |-> << 0, 0, 0 >>,
                                     collider |-> "box" ]
                /\ ~IsGeometry(out[last])
                /\ \A n \in 2..(last - 1) :
                      /\ IsGeometry(out[n])
                      /\ CellNumberOf(out[n]) \in 1..(grid_size * grid_size - 1)
                      /\ n > 2 => CellNumberOf(out[n - 1]) < CellNumberOf(out[n])
                /\ { CellNumberOf(out[n]) : n \in 2..(last - 1) }
                      = { k \in 1..(grid_size * grid_size - 1) :
                             RandomValue(states[k]) >= p_empty }

\* a second generation in the same run, whose first and last draws both placed
\* geometry: on cell (0,1) and on cell (19,19)
C5_Witness ==
    /\ JustGenerated
    /\ Len(gen_log) = 2
    /\ CellNumberOf(LastGen.out[2]) = 1
    /\ CellNumberOf(LastGen.out[Len(LastGen.out) - 1]) = grid_size * grid_size - 1

-----------------------------------------------------------------------------
(* Properties of the course / browser life cycle *)

\* C7 (geometry is discarded on exit): in browser mode no platform or obstacle
\* is alive, and in a level every live platform and obstacle was created by the
\* world of the current entry.
C7_GeometryDiscardedOnExit ==
    /\ state.mode = "browser" =>
          \A n \in 1..Len(scene) : ~IsGeometry(scene[n])
    /\ state.mode = "world" =>
          \A n \in 1..Len(scene) :
              IsGeometry(scene[n]) => scene[n].made_by = state.world.serial

\* a step that handles the key R while a course is being played
ResetStep == state.mode = "world" /\ last_event'.key = "r"

\* C8 (R resets the player, nothing is regenerated): handling R in a level puts
\* the player at (0,1,0) with zero vertical velocity and the camera at its start
\* pose, and leaves the generated entities, the generator and the world itself
\* as they were.
C8_ReloadResetsPlayerOnly ==
    [][ ResetStep =>
          /\ state'.mode = "world"
          /\ state'.world.mario.position = << 0, 1 * PosScale, 0 >>
          /\ state'.world.y_velocity = 0
          /\ camera'.position = << 0, 2, -8 >>
          /\ camera'.rotation = << 10, 0, 0 >>
          /\ state'.world.serial = state.world.serial
          /\ state'.world.course_name = state.world.course_name
          /\ scene' = scene
          /\ rng' = rng
          /\ gen_log' = gen_log
          /\ worlds_created' = worlds_created ]_vars

\* R was handled in a level after at least one frame had run (the player has
\* landed once), and the player stands at the spawn position
C8_Witness ==
    /\ state.mode = "world"
    /\ last_event.key = "r"
    /\ state.world.grounded
    /\ state.world.mario.position = << 0, 1 * PosScale, 0 >>
    /\ state.world.y_velocity = 0

\* the keys of the browser
BrowserKeys == { "up arrow", "down arrow", "tab", "enter", "escape" }

\* C9 (one handler per key press): a key pressed in browser mode finds no world
\* and has an effect only if it is a browser key; a key pressed in a level runs
\* the world's handler exactly once, so F11 flips the fullscreen flag, and the
\* browser keys leave the browser and the number of worlds as they were.
C9_OneHandlerPerKey ==
    [][ (program = "starroad4k" /\ last_event'.key \in Keys) =>
          /\ state.mode = "browser" =>
                /\ state.world = None
                /\ last_event'.key \notin BrowserKeys =>
                      /\ state' = state
                      /\ browser' = browser
                      /\ browser_title' = browser_title
                      /\ current_category_index' = current_category_index
                      /\ fullscreen' = fullscreen
                      /\ running' = running
          /\ state.mode = "world" =>
                /\ last_event'.world_inputs = 1
                /\ last_event'.key = "f11" => fullscreen' = ~fullscreen
                /\ last_event'.key \in { "up arrow", "down arrow", "tab", "enter" } =>
                      /\ current_category_index' = current_category_index
                      /\ browser' = browser
                      /\ browser_title' = browser_title
                      /\ worlds_created' = worlds_created
                      /\ state' = state ]_vars

\* the categories in the order TAB shows them, by index
CategoryTitle(i) ==
    CASE i = 0 -> "Main Courses"
      [] i = 1 -> "Secret Courses"
      [] i = 2 -> "Boss Worlds"
      [] i = 3 -> "Overworlds"

\* a step that handles TAB in the browser (road4k is always in the browser)
TabStep == state.mode = "browser" /\ last_event'.key = "tab"

\* C10 (TAB cycles the categories): handling TAB in the browser moves the
\* category index by one modulo 4, in the order Main, Secret, Boss, Overworld,
\* Main, and the title and the browser's course list become those of the new
\* index.
C10_TabCyclesCategories ==
    [][ TabStep =>
          /\ current_category_index' = (current_category_index + 1) % 4
          /\ browser_title'.text = CategoryTitle(current_category_index')
          /\ browser'.courses = categories(CategoryTitle(current_category_index'))
          /\ browser_title.text = "Main Courses" => browser_title'.text = "Secret Courses"
          /\ browser_title.text = "Secret Courses" => browser_title'.text = "Boss Worlds"
          /\ browser_title.text = "Boss Worlds" => browser_title'.text = "Overworlds"
          /\ browser_title.text = "Overworlds" => browser_title'.text = "Main Courses" ]_vars

\* TAB was just handled and brought the browser back to the first category
C10_Witness ==
    /\ state.mode = "browser"
    /\ last_event.key = "tab"
    /\ current_category_index = 0
    /\ browser_title.text = "Main Courses"
    /\ browser.courses = main_courses

-----------------------------------------------------------------------------
(* Properties of the return to the browser and of the mode *)

\* a step that handles the key Q while a course is being played
QuitStep == program = "starroad4k" /\ state.mode = "world" /\ last_event'.key = "q"

\* a step that enters a course from the browser
EnterStep == program = "starroad4k" /\ state.mode = "browser" /\ state'.mode = "world"

\* what the browser shows: category, title, list, selected row, scroll position
BrowserView ==
    << current_category_index, browser_title.text, browser.courses, browser.selected,
       browser.scroll_index, browser.items >>

\* C11 (Q returns to the browser): handling Q in a level ends in browser mode
\* with no world object left; the world's handler runs once and exactly one
\* world, the one that was being played, is torn down; list, title and prompt
\* are enabled again; and the browser shows what it showed when the course was
\* entered, because neither entering a course nor any step taken in a level
\* changes category, title, list, selected row or scroll position.
C11_QuitReturnsToBrowser ==
    [][ /\ QuitStep =>
              /\ state'.mode = "browser"
              /\ state'.world = None
              /\ last_event'.world_inputs = 1
              /\ state.world.serial \in live_worlds
              /\ live_worlds' = live_worlds \ { state.world.serial }
              /\ live_worlds' = {}
              /\ worlds_destroyed' = worlds_destroyed + 1
              /\ browser'.enabled
              /\ browser_title'.enabled
              /\ prompt'.enabled
        /\ (EnterStep \/ (program = "starroad4k" /\ state.mode = "world")) =>
              BrowserView' = BrowserView ]_vars

\* Q was handled in a course entered from the twelfth row of the main courses,
\* and the browser is back on that row with its list scrolled
C11_Witness ==
    /\ program = "starroad4k"
    /\ last_event.key = "q"
    /\ state.mode = "browser"
    /\ worlds_destroyed = 1
    /\ browser.selected = 11
    /\ browser.scroll_index = 2
    /\ gen_log[1].course_name = main_courses[12]
    /\ browser.enabled /\ browser_title.enabled /\ prompt.enabled

-----------------------------------------------------------------------------
(* Properties of the slideshows *)

\* the number of star trigger lines reached when line i is on display
TriggersUpTo(i) == Cardinality({ t \in star_trigger_indices : t <= i })

LastLine == Len(story_lines) - 1

\* C12 (slideshow counters): after any number of SPACE presses the story index
\* is within 0..15, the line on display is the line of that index, and the star
\* counter is the number of trigger indices in {5, 8, 9, 15} that are <= the
\* index (so at most 4); no step lowers the index or the counter; once line 15
\* is shown the prompt is disabled and a further SPACE changes neither the
\* index, the counter nor the line.
C12_SlideshowCounters ==
    /\ [](program = "supermarioss" =>
             /\ story_index \in 0..15
             /\ LastLine = 15
             /\ narrative_text.text = story_lines[story_index + 1]
             /\ star_count = TriggersUpTo(story_index)
             /\ star_count <= 4
             /\ story_index = 15 => ~prompt_text.enabled
             /\ story_index < 15 => prompt_text.enabled)
    /\ [][ program = "supermarioss" =>
             /\ story_index' >= story_index
             /\ star_count' >= star_count
             /\ (story_index = 15 /\ last_event'.key = "space") =>
                   /\ space_presses' = space_presses + 1
                   /\ story_index' = story_index
                   /\ star_count' = star_count
                   /\ narrative_text' = narrative_text
                   /\ star_text' = star_text
                   /\ prompt_text' = prompt_text ]_vars

\* SPACE has been pressed three more times than the story has lines to advance
\* to: the last line is shown and four stars are counted
C12_Witness ==
    /\ program = "supermarioss"
    /\ last_event.key = "space"
    /\ space_presses = 18
    /\ story_index = 15
    /\ star_count = 4
    /\ star_text.text = "*: 4"
    /\ ~prompt_text.enabled

\* the star count the fan game shows after n SPACE presses
StarsAfter(n) ==
    IF n < 5 THEN 0
    ELSE IF n < 8 THEN 40
    ELSE IF n = 8 THEN 80
    ELSE IF n < 15 THEN 120
    ELSE 121

\* C13 (fan game stars): after n SPACE presses the star count is 0 for n < 5,
\* 40 for 5 <= n < 8, 80 for n = 8, 120 for 9 <= n < 15 and 121 for n >= 15,
\* and the counter on screen shows it; no step lowers it; for every n >= 18
\* the narrative shows the end text, the prompt is disabled, and a further
\* SPACE changes neither the stars, the text nor the prompt.
C13_FanGameStars ==
    /\ [](program = "road1k" =>
             /\ Len(story_text) = 18
             /\ story_index = space_presses
             /\ star_count = StarsAfter(space_presses)
             /\ star_text.text = StarDisplay(StarsAfter(space_presses))
             /\ space_presses >= 18 =>
                   /\ narrative_text.text = EndText
                   /\ ~prompt_text.enabled)
    /\ [][ program = "road1k" =>
             /\ star_count' >= star_count
             /\ (space_presses >= 18 /\ last_event'.key = "space") =>
                   /\ space_presses' = space_presses + 1
                   /\ star_count' = star_count
                   /\ star_text' = star_text
                   /\ narrative_text' = narrative_text
                   /\ prompt_text' = prompt_text ]_vars

\* SPACE has been pressed twenty times: two presses past the press that
\* brought up the end text
C13_Witness ==
    /\ program = "road1k"
    /\ last_event.key = "space"
    /\ space_presses = 20
    /\ star_count = 121
    /\ narrative_text.text = EndText
    /\ ~prompt_text.enabled

-----------------------------------------------------------------------------
(* Invariants of the playable browser *)

\* state['world'] holds a world object that has not been destroyed
HoldsLiveWorld == state.world # None /\ state.world.serial \in live_worlds

\* C14 (mode/world consistency): after every event the mode is 'world' exactly
\* when state['world'] holds a live world object, and otherwise the mode is
\* 'browser' and state['world'] is None; list, title and prompt are enabled
\* exactly in browser mode; at most one world is alive, and it is the one
\* state['world'] holds.
C14_ModeWorldConsistency ==
    program = "starroad4k" =>
        /\ state.mode \in { "browser", "world" }
        /\ (state.mode = "world") <=> HoldsLiveWorld
        /\ (state.mode = "browser") <=> (state.world = None)
        /\ browser.enabled <=> (state.mode = "browser")
        /\ browser_title.enabled <=> (state.mode = "browser")
        /\ prompt.enabled <=> (state.mode = "browser")
        /\ Cardinality(live_worlds) <= 1
        /\ \A serial \in live_worlds : state.world # None /\ state.world.serial = serial

\* a second course is being played after the first was left with Q
C14_Witness ==
    /\ program = "starroad4k"
    /\ state.mode = "world"
    /\ worlds_created = 2
    /\ worlds_destroyed = 1
    /\ live_worlds = { 2 }
    /\ state.world.serial = 2
    /\ ~browser.enabled /\ ~browser_title.enabled /\ ~prompt.enabled

\* the courses of the category on display
CurrentCourses == categories(category_names[current_category_index + 1])

\* C15 (browser selection): in every state of the playable browser
\* 0 <= selected < len(courses), scroll_index >= 0 and
\* scroll_index <= selected < scroll_index + visible_rows, so the selected row
\* is the one highlighted row of the visible window, and get_selected_course
\* returns a course of the current category; a TAB, which calls set_courses,
\* leaves selected and scroll_index at 0.
C15_SelectionInWindow ==
    /\ [](program = "starroad4k" =>
             /\ 0 <= browser.selected
             /\ browser.selected < Len(browser.courses)
             /\ browser.scroll_index >= 0
             /\ browser.scroll_index <= browser.selected
             /\ browser.selected < browser.scroll_index + browser.visible_rows
             /\ browser.courses = CurrentCourses
             /\ \E n \in 1..Len(CurrentCourses) :
                   get_selected_course(browser) = CurrentCourses[n]
             /\ \A i \in 1..Len(browser.items) :
                   (browser.items[i].color = "yellow")
                       <=> (i = browser.selected - browser.scroll_index + 1)
             /\ browser.items[browser.selected - browser.scroll_index + 1].text
                   = get_selected_course(browser))
    /\ [][ (program = "starroad4k" /\ TabStep) =>
             /\ browser'.selected = 0
             /\ browser'.scroll_index = 0 ]_vars

\* the selection went down to the last main course and came back up past the
\* top of the window, which followed it: row 4 is selected and is the first
\* visible row
C15_Witness ==
    /\ program = "starroad4k"
    /\ state.mode = "browser"
    /\ last_event.key = "up arrow"
    /\ browser.selected = 4
    /\ browser.scroll_index = 4
    /\ browser.items[1].color = "yellow"

-----------------------------------------------------------------------------
(* Properties of the gravity / jump integrator *)

\* a step that runs SimpleMarioWorld.update for one frame
UpdateStep == last_event'.key = "update"

\* the player's height, in 1/PosScale units
Height(w) == w.mario.position[2]

\* C16 (gravity and jump): the player is never below height 1; after every
\* update tick grounded is true exactly when the tick left the player clamped
\* at height 1; the vertical velocity is jump_power after a tick only if that
\* tick grounded the player, it rises only in such a tick (to 0 on landing, to
\* jump_power on a jump), and in a tick that leaves the player in the air it
\* falls, so that held SPACE starts no second jump in the air, also after R
\* was handled in mid-air.
C16_JumpOnlyFromGround ==
    /\ [](state.world # None => Height(state.world) >= 1 * PosScale)
    /\ [][ UpdateStep =>
             /\ Height(state'.world) >= 1 * PosScale
             /\ state'.world.grounded <=> (Height(state'.world) = 1 * PosScale)
             /\ state'.world.y_velocity = jump_power => state'.world.grounded
             /\ state'.world.y_velocity > state.world.y_velocity =>
                   /\ state'.world.grounded
                   /\ state'.world.y_velocity \in { 0, jump_power }
             /\ ~state'.world.grounded =>
                   state'.world.y_velocity < state.world.y_velocity ]_vars

\* R was handled while the player was in the air, and the tick right after it,
\* with SPACE held, put the player on the ground and started a jump from there
\* (events: jump tick, tick in the air, R, tick)
C16_Witness ==
    /\ last_event.key = "update"
    /\ events = 4
    /\ reset_height > 1 * PosScale
    /\ state.world.grounded
    /\ Height(state.world) = 1 * PosScale
    /\ state.world.y_velocity = jump_power
====
